---- MODULE Spec2Model ----
(***************************************************************************)
(* Model of the tic-tac-toe project's context tooling and game:            *)
(*   - scripts/generate-project-context.js: the snapshot generator         *)
(*     (collectFiles, loadResources, buildSummary, main);                  *)
(*   - src/index.js: the resource shim (loadProjectContext,                *)
(*     listProjectResources, getProjectResource, the context helpers)      *)
(*     and the class Game (handleClick, jumpTo).                           *)
(* Strings the code inspects character by character (paths, names, uris,   *)
(* search texts) are sequences of one-character strings.  File contents    *)
(* are abstracted to an identity, a length in UTF-16 code units and a flag *)
(* telling whether a NUL character occurs; a text is a prefix of a content *)
(* followed or not by the truncation marker.                               *)
(***************************************************************************)
EXTENDS Integers, Sequences, FiniteSets, TLC

VARIABLES
    \* ---- generator (scripts/generate-project-context.js) ----
    pathSep,        \* path.sep of the platform the script runs on
    fsFiles,        \* the files below PROJECT_ROOT
    pc,             \* position of the script
    enumOrder,      \* order in which readdirSync lists entries in this run
    files,          \* loadResources: files (after the sort)
    idx,            \* loadResources: index of the next file of the for loop
    resources,      \* loadResources: resources
    totalChars,     \* loadResources: totalChars
    stopped,        \* loadResources: a break left the for loop
    reads,          \* loadResources: calls of readFileSync in this run
    runs,           \* number of completed runs of main
    written,        \* payloads written to OUTPUT_FILE, oldest first
    \* ---- resource shim (src/index.js) ----
    served,                 \* what the server answers to GET PROJECT_CONTEXT_ENDPOINT
    fetchPromise,           \* the promise fetch(...) returned
    thenPromise,            \* the promise .then(...) returned
    projectContextPromise,  \* the module variable: the promise .catch(...) returned
    fetchCount,             \* number of calls of fetch
    assignCount,            \* number of assignments to projectContextPromise
    loadCalls,              \* number of calls of loadProjectContext
    calls,                  \* number of calls of the shim's operations
    callers,                \* the pending and finished calls, by caller
    \* ---- game (src/index.js, class Game): this.state ----
    history,        \* the boards, oldest first; history[k + 1] is history[k] of the code
    stepNumber,     \* index, in the code's counting, of the board shown
    xIsNext         \* the next mark is 'X'

genVars == <<pathSep, fsFiles, pc, enumOrder, files, idx, resources,
             totalChars, stopped, reads, runs, written>>

shimVars == <<served, fetchPromise, thenPromise, projectContextPromise,
              fetchCount, assignCount, loadCalls, calls, callers>>

gameVars == <<history, stepNumber, xIsNext>>

vars == <<genVars, shimVars, gameVars>>

-----------------------------------------------------------------------------
(* Characters *)

Lower == <<"a", "b", "c", "d", "e", "f", "g", "h", "i", "j", "k", "l", "m", "n", "o", "p", "q", "r", "s", "t", "u", "v", "w", "x", "y", "z">>
Upper == <<"A", "B", "C", "D", "E", "F", "G", "H", "I", "J", "K", "L", "M", "N", "O", "P", "Q", "R", "S", "T", "U", "V", "W", "X", "Y", "Z">>
Digits == <<"0", "1", "2", "3", "4", "5", "6", "7", "8", "9">>

\* Characters in ascending order of UTF-16 code unit.  "U+00E9" is the
\* precomposed e-acute, "U+0301" the combining acute accent.
CodeUnitOrder ==
    <<" ", "-", ".", "/">> \o Digits \o <<":">> \o Upper \o <<"\\", "_">> \o Lower \o <<"U+00E9", "U+0301">>

Alphabet == { CodeUnitOrder[i] : i \in 1..Len(CodeUnitOrder) }

Range(s) == { s[i] : i \in 1..Len(s) }

PositionIn(s, c) == CHOOSE i \in 1..Len(s) : s[i] = c

\* Rank of a character by code unit (the order of <, > on JS strings).
CodeUnit == [c \in Alphabet |-> PositionIn(CodeUnitOrder, c)]

\* String.prototype.toLowerCase, per character.
LowerOfChar ==
    [c \in Alphabet |-> IF c \in Range(Upper) THEN Lower[PositionIn(Upper, c)] ELSE c]

toLowerCase(s) == [i \in 1..Len(s) |-> IF s[i] \in Alphabet THEN LowerOfChar[s[i]] ELSE s[i]]

\* a < b on JS strings: lexicographic by code unit.
RECURSIVE CodeUnitLess(_, _)
CodeUnitLess(a, b) ==
    IF b = <<>> THEN FALSE
    ELSE IF a = <<>> THEN TRUE
    ELSE IF a[1] # b[1] THEN CodeUnit[a[1]] < CodeUnit[b[1]]
    ELSE CodeUnitLess(Tail(a), Tail(b))

startsWith(s, prefix) ==
    /\ Len(prefix) <= Len(s)
    /\ SubSeq(s, 1, Len(prefix)) = prefix

\* String.prototype.includes
includes(s, q) ==
    \E i \in 0..(Len(s) - Len(q)) : SubSeq(s, i + 1, i + Len(q)) = q

-----------------------------------------------------------------------------
(* String.prototype.localeCompare with the default collator: the Unicode   *)
(* collation algorithm on the root collation, punctuation not ignored,     *)
(* strength tertiary.  Each character maps to collation elements           *)
(* <<primary, secondary, tertiary>>; strings are compared by their primary *)
(* weights, then by their secondary weights, then by their tertiary        *)
(* weights.  Canonically equivalent strings have the same elements.        *)

\* Primary order of the root collation: spaces, punctuation, digits, letters
\* (a letter and its capital share the primary weight).
PrimaryOrder == <<" ", "_", "-", ":", ".", "/", "\\">> \o Digits \o Lower

PrimaryOf(c) == PositionIn(PrimaryOrder, c)

\* Secondary weights: 1 common, 2 acute accent.  Tertiary weights: 1 common
\* (lower case), 2 upper case.  Weight 0: ignorable at that level.
CollationElements ==
    [c \in Alphabet |->
        IF c = "U+0301" THEN << <<0, 2, 1>> >>
        ELSE IF c = "U+00E9"
            THEN << <<PrimaryOf("e"), 1, 1>>,
                    <<0, 2, 1>> >>
        ELSE IF c \in Range(Upper)
            THEN << <<PrimaryOf(LowerOfChar[c]), 1, 2>> >>
        ELSE << <<PrimaryOf(c), 1, 1>> >>]

RECURSIVE ElementsOf(_)
ElementsOf(s) ==
    IF s = <<>> THEN <<>> ELSE CollationElements[s[1]] \o ElementsOf(Tail(s))

\* The non-zero weights of one level, in order.
RECURSIVE LevelKey(_, _)
LevelKey(elts, level) ==
    IF elts = <<>> THEN <<>>
    ELSE IF elts[1][level] = 0 THEN LevelKey(Tail(elts), level)
    ELSE <<elts[1][level]>> \o LevelKey(Tail(elts), level)

\* The sort key: the three level keys, most significant first.
SortKey(s) ==
    LET elts == ElementsOf(s)
    IN  <<LevelKey(elts, 1), LevelKey(elts, 2), LevelKey(elts, 3)>>

\* -1, 0, 1 as a lexicographic comparison of two sequences of numbers.
RECURSIVE CompareWeights(_, _)
CompareWeights(a, b) ==
    IF a = <<>> THEN (IF b = <<>> THEN 0 ELSE -1)
    ELSE IF b = <<>> THEN 1
    ELSE IF a[1] < b[1] THEN -1
    ELSE IF a[1] > b[1] THEN 1
    ELSE CompareWeights(Tail(a), Tail(b))

CompareKeys(ka, kb) ==
    LET p == CompareWeights(ka[1], kb[1])
        s == CompareWeights(ka[2], kb[2])
    IN  IF p # 0 THEN p
        ELSE IF s # 0 THEN s
        ELSE CompareWeights(ka[3], kb[3])

localeCompare(a, b) == CompareKeys(SortKey(a), SortKey(b))

-----------------------------------------------------------------------------
(* Configuration of the generator *)

IGNORED_DIRS ==
    { <<".", "g", "i", "t">>, <<"n", "o", "d", "e", "_", "m", "o", "d", "u", "l", "e", "s">>, <<"b", "u", "i", "l", "d">>, <<"c", "o", "v", "e", "r", "a", "g", "e">>, <<".", "v", "s", "c", "o", "d", "e">>, <<".", "i", "d", "e", "a">> }

INCLUDED_EXTENSIONS ==
    { <<".", "j", "s">>, <<".", "j", "s", "x">>, <<".", "t", "s">>, <<".", "t", "s", "x">>, <<".", "j", "s", "o", "n">>, <<".", "c", "s", "s">>, <<".", "m", "d">>, <<".", "t", "x", "t">>, <<".", "h", "t", "m", "l">> }

EXCLUDED_FILES == { <<".", "e", "n", "v", ".", "l", "o", "c", "a", "l">>, <<".", "e", "n", "v">>, <<"p", "a", "c", "k", "a", "g", "e", "-", "l", "o", "c", "k", ".", "j", "s", "o", "n">> }

MAX_FILES == 120
MAX_CHARS_PER_FILE == 12000
MAX_TOTAL_CHARS == 500000

\* Length of the string "\n\n/* content truncated */" appended to a cut text.
TRUNCATION_MARKER_LENGTH == 25

\* OUTPUT_FILE, relative to PROJECT_ROOT: its directory and its name.
OUTPUT_DIR == << <<"p", "u", "b", "l", "i", "c">> >>
OUTPUT_NAME == <<"p", "r", "o", "j", "e", "c", "t", "-", "c", "o", "n", "t", "e", "x", "t", ".", "j", "s", "o", "n">>

-----------------------------------------------------------------------------
(* path module *)

RECURSIVE Join(_, _)
Join(parts, sep) ==
    IF parts = <<>> THEN <<>>
    ELSE IF Len(parts) = 1 THEN parts[1]
    ELSE parts[1] \o <<sep>> \o Join(Tail(parts), sep)

\* path.relative(PROJECT_ROOT, path.join(dirPath, entry.name)): the
\* components below the root joined by the platform's separator.
relative(dirPath, name, sep) == Join(Append(dirPath, name), sep)

\* filePath.split(path.sep).join("/")
toPosixPath(filePath, sep) ==
    [i \in 1..Len(filePath) |-> IF filePath[i] = sep THEN "/" ELSE filePath[i]]

LastIndexOf(s, c) ==
    IF c \in Range(s) THEN CHOOSE i \in 1..Len(s) : s[i] = c /\ \A j \in (i+1)..Len(s) : s[j] # c
    ELSE 0

\* path.basename of a POSIX-style relative path.
basename(p) == SubSeq(p, LastIndexOf(p, "/") + 1, Len(p))

\* path.extname: from the last "." of the last portion to the end; empty
\* when there is none or when it is the first character of that portion.
extname(p) ==
    LET base == basename(p)
        dot == LastIndexOf(base, ".")
    IN  IF dot <= 1 THEN <<>> ELSE SubSeq(base, dot, Len(base))

\* isBinaryLike with the test dropped: no content is taken for binary.
isBinaryLikeNever(content) == FALSE

isBinaryLike(content) == content.nul

getMimeType(filePath) ==
    LET ext == toLowerCase(extname(filePath))
    IN  CASE ext = <<".", "j", "s", "o", "n">> -> "application/json"
          [] ext = <<".", "m", "d">> -> "text/markdown"
          [] ext = <<".", "c", "s", "s">> -> "text/css"
          [] ext = <<".", "h", "t", "m", "l">> -> "text/html"
          [] OTHER -> "text/plain"

-----------------------------------------------------------------------------
(* The file system below PROJECT_ROOT: a set of files                     *)
(*   [dir |-> names of the directories from the root, name |-> file name, *)
(*    content |-> [id, len, nul]].                                        *)
(* The directories are those that hold a file.                            *)

\* Names of the entries of directory dirPath: its files and subdirectories.
FilesIn(fs, dirPath) == { f \in fs : f.dir = dirPath }

SubdirsOf(fs, dirPath) ==
    { f.dir[Len(dirPath) + 1] :
        f \in { g \in fs : Len(g.dir) > Len(dirPath)
                            /\ SubSeq(g.dir, 1, Len(dirPath)) = dirPath } }

EntryNames(fs, dirPath) ==
    { f.name : f \in FilesIn(fs, dirPath) } \cup SubdirsOf(fs, dirPath)

\* The names of a set in ascending order of code units.
AscendingNames(set) ==
    LET ranked == { <<Cardinality({ y \in set : CodeUnitLess(y, x) }) + 1, x>> : x \in set }
    IN  [i \in 1..Cardinality(set) |-> (CHOOSE r \in ranked : r[1] = i)[2]]

Reverse(s) == [i \in 1..Len(s) |-> s[Len(s) + 1 - i]]

\* fs.readdirSync(dirPath, {withFileTypes: true}): the entries in the order
\* the platform lists them in this run, which the code does not control.
readdirSync(fs, dirPath, order) ==
    LET asc == AscendingNames(EntryNames(fs, dirPath))
    IN  IF order = "ascending" THEN asc ELSE Reverse(asc)

EnumOrders == { "ascending", "descending" }

\* Concatenation of the sequences seqs[lo], ..., seqs[hi].
RECURSIVE Flatten(_, _, _)
Flatten(seqs, lo, hi) ==
    IF lo > hi THEN <<>>
    ELSE IF lo = hi THEN seqs[lo]
    ELSE LET mid == (lo + hi) \div 2
         IN  Flatten(seqs, lo, mid) \o Flatten(seqs, mid + 1, hi)

\* IGNORED_DIRS.has(entry.name), line 71.  The variant knows two of the
\* names only.
IsIgnoredDirOfTwo(name) ==
    name \in { <<".", "g", "i", "t">>,
               <<"n", "o", "d", "e", "_", "m", "o", "d", "u", "l", "e", "s">> }

IsIgnoredDir(name) == name \in IGNORED_DIRS

\* collectFiles(dirPath, acc): the accumulator after the walk of dirPath,
\* each entry of the directory having pushed its files in turn.
RECURSIVE collectFiles(_, _, _, _, _)
collectFiles(dirPath, acc, fs, order, sep) ==
    LET entries == readdirSync(fs, dirPath, order)
        subdirs == SubdirsOf(fs, dirPath)
        pushed ==
            [i \in 1..Len(entries) |->
                LET name == entries[i]
                    relativePath == relative(dirPath, name, sep)
                    normalized == toPosixPath(relativePath, sep)
                IN  IF name \in subdirs
                    THEN IF IsIgnoredDir(name) THEN <<>>
                         ELSE collectFiles(Append(dirPath, name), <<>>, fs, order, sep)
                    ELSE IF toLowerCase(extname(name)) \notin INCLUDED_EXTENSIONS THEN <<>>
                    ELSE IF name \in EXCLUDED_FILES THEN <<>>
                    ELSE IF /\ startsWith(normalized, <<"p", "u", "b", "l", "i", "c", "/">>)
                            /\ normalized # <<"p", "u", "b", "l", "i", "c", "/", "i", "n", "d", "e", "x", ".", "h", "t", "m", "l">> THEN <<>>
                    ELSE << [fullPath |-> <<dirPath, name>>,
                             relativePath |-> normalized] >>]
    IN  acc \o Flatten(pushed, 1, Len(entries))

\* fs.readFileSync(fullPath, "utf8")
readFileSync(fs, fullPath) ==
    (CHOOSE f \in fs : f.dir = fullPath[1] /\ f.name = fullPath[2]).content

\* Array.prototype.sort with (a, b) => a.relativePath.localeCompare(b.relativePath):
\* a stable sort; elements that compare equal keep their order.  An element
\* lands behind those that compare smaller and those that compare equal and
\* stood before it.
sortFiles(acc) ==
    LET n == Len(acc)
        key == <<>> \o [i \in 1..n |-> SortKey(acc[i].relativePath)]
        place == <<>> \o [i \in 1..n |->
                    Cardinality({ j \in 1..n :
                        LET c == CompareKeys(key[j], key[i])
                        IN  c < 0 \/ (c = 0 /\ j < i) }) + 1]
    IN  [p \in 1..n |-> acc[CHOOSE i \in 1..n : place[i] = p]]
-----------------------------------------------------------------------------
(* loadResources *)

Min(a, b) == IF a < b THEN a ELSE b
Max(a, b) == IF a > b THEN a ELSE b

\* text.length of a text [content, chars, marker]: chars characters of the
\* content, then the truncation marker or nothing.
TextLength(text) ==
    text.chars + (IF text.marker THEN TRUNCATION_MARKER_LENGTH ELSE 0)

\* rawContent.slice(0, cap)
slice(content, cap) == Min(content.len, cap)

\* The two tests that open the loop body, lines 97-98.  The variants: a
\* count compared with > for >=, and no test of the characters.
CountBudgetSpentLate(st) == Len(st.resources) > MAX_FILES

CountBudgetSpent(st) == Len(st.resources) >= MAX_FILES

CharBudgetSpentNever(st) == FALSE

CharBudgetSpent(st) == st.totalChars >= MAX_TOTAL_CHARS

\* isTruncated, line 107.  The variant compares with >=.
IsTruncatedFromCap(rawContent, cap) == rawContent.len >= cap

IsTruncated(rawContent, cap) == rawContent.len > cap

\* One pass of the body of the for loop over files (lines 96-122), from the
\* loop's variables st = [resources, totalChars, stopped, reads] and for
\* the file at hand; reads counts the calls of readFileSync.
LoopBody(fs, file, st) ==
    IF CountBudgetSpent(st) THEN [st EXCEPT !.stopped = TRUE]
    ELSE IF CharBudgetSpent(st) THEN [st EXCEPT !.stopped = TRUE]
    ELSE
        LET rawContent == readFileSync(fs, file.fullPath)
            availableChars == Max(0, MAX_TOTAL_CHARS - st.totalChars)
            cap == Min(MAX_CHARS_PER_FILE, availableChars)
            isTruncated == IsTruncated(rawContent, cap)
            text == IF isTruncated
                    THEN [content |-> rawContent.id, chars |-> slice(rawContent, cap),
                          marker |-> TRUE]
                    ELSE [content |-> rawContent.id, chars |-> rawContent.len,
                          marker |-> FALSE]
        IN  IF isBinaryLike(rawContent) THEN [st EXCEPT !.reads = @ + 1]
            ELSE IF cap = 0 THEN [st EXCEPT !.stopped = TRUE, !.reads = @ + 1]
            ELSE [resources |->
                      Append(st.resources,
                             [uri |-> <<"f", "i", "l", "e", ":", "/", "/", "/">> \o file.relativePath,
                              path |-> file.relativePath,
                              name |-> basename(file.relativePath),
                              mimeType |-> getMimeType(file.relativePath),
                              text |-> text,
                              truncated |-> isTruncated]),
                  totalChars |-> st.totalChars + TextLength(text),
                  stopped |-> FALSE,
                  reads |-> st.reads + 1]

\* Number of elements of a sequence that satisfy startsWith("src/").
CountSource(rs) ==
    Cardinality({ i \in 1..Len(rs) : startsWith(rs[i].path, <<"s", "r", "c", "/">>) })

\* buildSummary: the numbers its sentence reports.
buildSummary(rs) ==
    [files |-> Len(rs),
     source |-> CountSource(rs),
     config |-> Len(rs) - CountSource(rs)]

\* Sum of the text lengths of rs[lo], ..., rs[hi].
RECURSIVE SumTextLengths(_, _, _)
SumTextLengths(rs, lo, hi) ==
    IF lo > hi THEN 0
    ELSE IF lo = hi THEN TextLength(rs[lo].text)
    ELSE LET mid == (lo + hi) \div 2
         IN  SumTextLengths(rs, lo, mid) + SumTextLengths(rs, mid + 1, hi)

TotalTextLength(rs) == SumTextLengths(rs, 1, Len(rs))

\* The file main writes: JSON.stringify(payload, null, 2).  Its text holds
\* every resource's text, and JSON escapes a NUL character.
ArtifactFile(payload) ==
    [dir |-> OUTPUT_DIR, name |-> OUTPUT_NAME,
     content |-> [id |-> "artifact", len |-> TotalTextLength(payload.resources) + 2,
                  nul |-> FALSE]]

IsOutputFile(f) == f.dir = OUTPUT_DIR /\ f.name = OUTPUT_NAME

-----------------------------------------------------------------------------
(* Project trees *)

File(dir, name, id, len, nul) ==
    [dir |-> dir, name |-> name, content |-> [id |-> id, len |-> len, nul |-> nul]]

\* Number of runs of the script in one behaviour.
MaxRuns == 2
\* Largest number of files of SmallFiles in a small tree.
MaxTreeFiles == 3

SmallFiles ==
    { File(<<>>, <<"R", "E", "A", "D", "M", "E", ".", "m", "d">>, 1, 50, FALSE),
      File(<< <<"s", "r", "c">> >>, <<"A", "p", "p", ".", "j", "s">>, 2, 500, FALSE),
      File(<< <<"n", "o", "d", "e", "_", "m", "o", "d", "u", "l", "e", "s">>, <<"x">> >>, <<"i", "n", "d", "e", "x", ".", "j", "s">>, 3, 100, FALSE),
      File(<< <<"s", "r", "c">>, <<"b", "u", "i", "l", "d">> >>, <<"o", "u", "t", ".", "j", "s">>, 4, 100, FALSE),
      File(<<>>, <<"p", "a", "c", "k", "a", "g", "e", "-", "l", "o", "c", "k", ".", "j", "s", "o", "n">>, 5, 300, FALSE),
      File(<< <<"p", "u", "b", "l", "i", "c">> >>, <<"i", "n", "d", "e", "x", ".", "h", "t", "m", "l">>, 6, 200, FALSE),
      File(<< <<"p", "u", "b", "l", "i", "c">> >>, <<"p", "r", "o", "j", "e", "c", "t", "-", "c", "o", "n", "t", "e", "x", "t", ".", "j", "s", "o", "n">>, 7, 900, FALSE),
      File(<<>>, <<"l", "o", "g", "o", ".", "p", "n", "g">>, 8, 100, TRUE),
      File(<<>>, <<"B", ".", "J", "S">>, 9, 10, FALSE),
      File(<<>>, <<"a", ".", "j", "s">>, 10, 10, FALSE),
      File(<< <<"s", "r", "c">> >>, <<"b", "i", "n", ".", "j", "s">>, 11, 40, TRUE),
      File(<< <<"s", "r", "c">> >>, <<"b", "i", "g", ".", "j", "s">>, 12, MAX_CHARS_PER_FILE + 1, FALSE),
      File(<<>>, <<"U+00E9", ".", "m", "d">>, 13, 5, FALSE),
      File(<<>>, <<"e", "U+0301", ".", "m", "d">>, 14, 5, FALSE) }

SmallTrees == { t \in SUBSET SmallFiles : Cardinality(t) <= MaxTreeFiles }

\* Large trees: n files src/f<i>.js of one length, to exhaust the budgets.
ThreeDigits(i) ==
    << Digits[((i \div 100) % 10) + 1], Digits[((i \div 10) % 10) + 1],
       Digits[(i % 10) + 1] >>

BulkFile(i, len) ==
    File(<< <<"s", "r", "c">> >>, <<"f">> \o ThreeDigits(i) \o <<".", "j", "s">>, 100 + i, len, FALSE)

BulkCounts == { MAX_TOTAL_CHARS \div MAX_CHARS_PER_FILE + 1, MAX_FILES + 1 }
BulkLengths == { 0, MAX_CHARS_PER_FILE, MAX_CHARS_PER_FILE + 1 }

\* Files that may accompany the bulk files: one sorted before them, and a
\* binary-like one sorted among them.
BulkExtras ==
    { File(<<>>, <<"R", "E", "A", "D", "M", "E", ".", "m", "d">>, 1, 50, FALSE),
      File(<< <<"s", "r", "c">> >>, <<"f", "0", "0", "1", "x", ".", "j", "s">>, 11, 40, TRUE) }

BulkTrees ==
    { { BulkFile(i, len) : i \in 1..n } \cup extra :
        n \in BulkCounts, len \in BulkLengths,
        extra \in { e \in SUBSET BulkExtras : Cardinality(e) <= 1 } }

ProjectTrees == SmallTrees \cup BulkTrees

PathSeps == { "/", "\\" }

-----------------------------------------------------------------------------
(* The script *)

InitGenerator ==
    /\ pathSep \in PathSeps
    /\ fsFiles \in ProjectTrees
    /\ pc = "start"
    /\ enumOrder = "none"
    /\ files = <<>>
    /\ idx = 1
    /\ resources = <<>>
    /\ totalChars = 0
    /\ stopped = FALSE
    /\ reads = 0
    /\ runs = 0
    /\ written = <<>>

\* loadResources, lines 88-94: the walk, the sort, the loop's variables.
CollectAndSort ==
    /\ pc = "start"
    /\ \E order \in EnumOrders :
        /\ enumOrder' = order
        /\ files' = sortFiles(collectFiles(<<>>, <<>>, fsFiles, order, pathSep))
    /\ idx' = 1
    /\ resources' = <<>>
    /\ totalChars' = 0
    /\ stopped' = FALSE
    /\ reads' = 0
    /\ pc' = "loop"
    /\ UNCHANGED <<pathSep, fsFiles, runs, written>>
    /\ UNCHANGED <<shimVars, gameVars>>

\* loadResources, lines 96-122: one pass of the for loop.
LoopStep ==
    /\ pc = "loop"
    /\ ~stopped
    /\ idx <= Len(files)
    /\ LET st == LoopBody(fsFiles, files[idx],
                          [resources |-> resources, totalChars |-> totalChars,
                           stopped |-> FALSE, reads |-> reads])
       IN  /\ resources' = st.resources
           /\ totalChars' = st.totalChars
           /\ stopped' = st.stopped
           /\ reads' = st.reads
           /\ idx' = IF st.stopped THEN idx ELSE idx + 1
    /\ UNCHANGED <<pathSep, fsFiles, pc, enumOrder, files, runs, written>>
    /\ UNCHANGED <<shimVars, gameVars>>

\* An exception leaves collectFiles, loadResources and main, none of which
\* has a try: the locals of the run are gone and the process ends at the
\* call of main, line 154.
Thrown ==
    /\ pc' = "aborted"
    /\ enumOrder' = "none"
    /\ files' = <<>>
    /\ idx' = 1
    /\ resources' = <<>>
    /\ totalChars' = 0
    /\ stopped' = FALSE
    /\ reads' = 0
    /\ UNCHANGED <<pathSep, fsFiles, runs, written>>
    /\ UNCHANGED <<shimVars, gameVars>>

\* fs.readdirSync throws, line 63, at the root or in a directory below it.
ReaddirFails ==
    /\ pc = "start"
    /\ Thrown

\* fs.readFileSync throws, line 100, in a pass that reaches it.
ReadFileFails ==
    /\ pc = "loop"
    /\ ~stopped
    /\ idx <= Len(files)
    /\ LET st == [resources |-> resources, totalChars |-> totalChars,
                  stopped |-> FALSE, reads |-> reads]
       IN  ~CountBudgetSpent(st) /\ ~CharBudgetSpent(st)
    /\ Thrown

\* What main does once loadResources has returned, lines 139-151: the
\* payload is written to OUTPUT_FILE, created or overwritten.
WritePayload ==
    /\ LET payload == [generatedAt |-> runs + 1,
                       summary |-> buildSummary(resources),
                       resources |-> resources]
       IN  /\ fsFiles' = { f \in fsFiles : ~IsOutputFile(f) } \cup { ArtifactFile(payload) }
           /\ written' = Append(written, payload)
    /\ runs' = runs + 1
    /\ pc' = "done"
    /\ UNCHANGED <<pathSep, enumOrder, files, idx, resources, totalChars, stopped, reads>>
    /\ UNCHANGED <<shimVars, gameVars>>

\* A main that writes in a finally clause, whatever loadResources did.
WriteOutputInFinally ==
    /\ \/ pc = "loop" /\ (stopped \/ idx > Len(files))
       \/ pc = "aborted"
    /\ WritePayload

\* loadResources returns and main writes the payload.
WriteOutput ==
    /\ pc = "loop"
    /\ stopped \/ idx > Len(files)
    /\ WritePayload

\* The script is run again on the tree it left.
RunAgain ==
    /\ pc \in {"done", "aborted"}
    /\ runs < MaxRuns
    /\ pc' = "start"
    /\ UNCHANGED <<pathSep, fsFiles, enumOrder, files, idx, resources,
                   totalChars, stopped, reads, runs, written>>
    /\ UNCHANGED <<shimVars, gameVars>>



-----------------------------------------------------------------------------
(* The resource shim (src/index.js) *)

\* JSON values the shim may read: null, or an object of which `has` tells
\* the properties present.  generatedAt 0 stands for null.
JsonNull ==
    [type |-> "null", has |-> {}, generatedAt |-> 0,
     summary |-> [kind |-> "none", files |-> 0, source |-> 0, config |-> 0],
     resources |-> <<>>]

JsonEmptyObject == [JsonNull EXCEPT !.type = "object"]

\* JSON.parse(JSON.stringify(payload, null, 2)) for a payload of main.
ParsedArtifact(payload) ==
    [type |-> "object", has |-> {"generatedAt", "summary", "resources"},
     generatedAt |-> payload.generatedAt,
     summary |-> [kind |-> "context", files |-> payload.summary.files,
                  source |-> payload.summary.source, config |-> payload.summary.config],
     resources |-> payload.resources]

\* getFallbackProjectContext(): summary "No local project context is available."
getFallbackProjectContext ==
    [type |-> "object", has |-> {"generatedAt", "summary", "resources"},
     generatedAt |-> 0,
     summary |-> [kind |-> "unavailable", files |-> 0, source |-> 0, config |-> 0],
     resources |-> <<>>]

\* loadResources as a whole: the loop over files[i..] from the variables st.
RECURSIVE RunLoop(_, _, _, _)
RunLoop(fs, fileList, i, st) ==
    IF i > Len(fileList) \/ st.stopped THEN st
    ELSE RunLoop(fs, fileList, i + 1, LoopBody(fs, fileList[i], st))

loadResources(fs, order, sep) ==
    RunLoop(fs, sortFiles(collectFiles(<<>>, <<>>, fs, order, sep)), 1,
            [resources |-> <<>>, totalChars |-> 0, stopped |-> FALSE, reads |-> 0]).resources

\* The payload main builds at time now for the tree fs.
Payload(fs, order, sep, now) ==
    LET rs == loadResources(fs, order, sep)
    IN  [generatedAt |-> now, summary |-> buildSummary(rs), resources |-> rs]

\* Trees whose artifact the server may hold.
ServedTrees ==
    { {},
      { File(<<>>, <<"R", "E", "A", "D", "M", "E", ".", "m", "d">>, 1, 50, FALSE),
        File(<< <<"s", "r", "c">> >>, <<"A", "p", "p", ".", "j", "s">>, 2, 500, FALSE),
        File(<< <<"n", "o", "d", "e", "_", "m", "o", "d", "u", "l", "e", "s">>, <<"x">> >>, <<"i", "n", "d", "e", "x", ".", "j", "s">>, 3, 100, FALSE) },
      { File(<<>>, <<"R", "E", "A", "D", "M", "E", ".", "m", "d">>, 1, 50, FALSE),
        File(<< <<"s", "r", "c">> >>, <<"b", "i", "g", ".", "j", "s">>, 12, MAX_CHARS_PER_FILE + 1, FALSE),
        File(<< <<"p", "u", "b", "l", "i", "c">> >>, <<"i", "n", "d", "e", "x", ".", "h", "t", "m", "l">>, 6, 200, FALSE) } }

ServedArtifacts ==
    { ParsedArtifact(Payload(t, "ascending", "/", 1)) : t \in ServedTrees }

\* Answers to the GET: no answer (a network error), or a response with its
\* ok flag and a body that parses as JSON or does not.
Response(ok, parsable, value) ==
    [kind |-> "response", ok |-> ok, parsable |-> parsable, value |-> value]

Servings ==
    { [kind |-> "networkError", ok |-> FALSE, parsable |-> FALSE, value |-> JsonNull] }
    \cup { Response(FALSE, FALSE, JsonNull), Response(FALSE, TRUE, JsonEmptyObject) }
    \cup { Response(TRUE, FALSE, JsonNull) }
    \cup { Response(TRUE, TRUE, v) : v \in ServedArtifacts \cup { JsonNull, JsonEmptyObject } }

\* Promises: [state, value]; the value matters when the state is fulfilled.
Promise(state, value) == [state |-> state, value |-> value]
NoPromise == Promise("undefined", JsonNull)
Pending == Promise("pending", JsonNull)
Rejected == Promise("rejected", JsonNull)

Callers == { "c1", "c2" }
\* Number of calls of the shim's operations in one behaviour.
MaxCalls == 3

Arg(given, text) == [given |-> given, text |-> text]
NoArg == Arg(FALSE, <<>>)

\* Arguments of listProjectResources: search absent, or a text.
SearchArgs ==
    { NoArg } \cup
    { Arg(TRUE, t) : t \in { <<>>, <<"a", "p", "p">>, <<"S", "R", "C">>, <<" ", "m", "d", " ">>, <<" ">>, <<"x", "y", "z">> } }

\* Arguments of getProjectResource.
UriArgs ==
    { Arg(TRUE, u) : u \in { <<"f", "i", "l", "e", ":", "/", "/", "/", "R", "E", "A", "D", "M", "E", ".", "m", "d">>, <<"f", "i", "l", "e", ":", "/", "/", "/", "s", "r", "c", "/", "A", "p", "p", ".", "j", "s">>,
                             <<"f", "i", "l", "e", ":", "/", "/", "/", "r", "e", "a", "d", "m", "e", ".", "m", "d">>, <<"f", "i", "l", "e", ":", "/", "/", "/", "m", "i", "s", "s", "i", "n", "g", ".", "m", "d">> } }

LoadingOps ==
    { "loadProjectContext", "listProjectResources", "getProjectResource",
      "project_summary", "project_context_version" }

ArgsOf(op) ==
    CASE op = "listProjectResources" -> SearchArgs
      [] op = "getProjectResource" -> UriArgs
      [] OTHER -> { NoArg }

Idle == [pc |-> "idle", op |-> "none", arg |-> NoArg, when |-> "none", result |-> "none"]

\* String.prototype.trim on the space character.
RECURSIVE trimStart(_)
trimStart(s) == IF s # <<>> /\ s[1] = " " THEN trimStart(Tail(s)) ELSE s

RECURSIVE trimEnd(_)
trimEnd(s) ==
    IF s # <<>> /\ s[Len(s)] = " " THEN trimEnd(SubSeq(s, 1, Len(s) - 1)) ELSE s

trim(s) == trimEnd(trimStart(s))

\* loadProjectContext, line 23: !projectContextPromise.  A promise is truthy.
\* The variant refetches until the promise has settled.
IsUnsetOrPending(promise) == promise.state \in { "undefined", "pending" }

IsUnset(promise) == promise.state = "undefined"

\* The then callback's test, line 26.  The variant accepts every response.
ResponseOkAlways(response) == TRUE

ResponseOk(response) == response.ok

\* Reading a property of the context throws a TypeError on null; reading
\* .filter, .find or .length of an absent resources property throws too.
ThrowsOnResources(context) ==
    context.type = "null" \/ "resources" \notin context.has

\* listProjectResources after the await, lines 36-52.  The variant does not
\* lower the case of the search text.
ListEntryOfAll(resource) ==
    [uri |-> resource.uri,
     path |-> resource.path,
     name |-> resource.name,
     mimeType |-> resource.mimeType,
     text |-> resource.text,
     truncated |-> resource.truncated,
     description |-> <<"P", "r", "o", "j", "e", "c", "t", " ", "f", "i", "l", "e", " ">> \o resource.path]

ListEntry(resource) ==
    [uri |-> resource.uri,
     name |-> resource.name,
     description |-> <<"P", "r", "o", "j", "e", "c", "t", " ", "f", "i", "l", "e", " ">> \o resource.path,
     mimeType |-> resource.mimeType]

listProjectResourcesCaseSensitive(context, search) ==
    LET query == trim(IF search.given THEN search.text ELSE <<>>)
        kept == SelectSeq(context.resources,
                    LAMBDA resource :
                        \/ query = <<>>
                        \/ includes(toLowerCase(resource.uri), query)
                        \/ includes(toLowerCase(resource.path), query)
                        \/ includes(toLowerCase(resource.name), query))
    IN  [i \in 1..Len(kept) |-> ListEntry(kept[i])]

listProjectResources(context, search) ==
    LET query == trim(toLowerCase(IF search.given THEN search.text ELSE <<>>))
        kept == SelectSeq(context.resources,
                    LAMBDA resource :
                        \/ query = <<>>
                        \/ includes(toLowerCase(resource.uri), query)
                        \/ includes(toLowerCase(resource.path), query)
                        \/ includes(toLowerCase(resource.name), query))
    IN  [i \in 1..Len(kept) |-> ListEntry(kept[i])]

\* getProjectResource after the await, lines 57-79.  The variant compares
\* the uris without regard to case.
NotFoundContents(uri) ==
    << [uri |-> uri, mimeType |-> "text/plain",
        text |-> <<"R", "e", "s", "o", "u", "r", "c", "e", " ", "n", "o", "t", " ", "f", "o", "u", "n", "d", " ", "f", "o", "r", " ", "u", "r", "i", ":", " ">> \o uri] >>

FoundContents(resource) ==
    << [uri |-> resource.uri,
        mimeType |-> IF resource.mimeType = "" THEN "text/plain" ELSE resource.mimeType,
        text |-> resource.text] >>

getProjectResourceIgnoringCase(context, uri) ==
    LET hits == { i \in 1..Len(context.resources) :
                    toLowerCase(context.resources[i].uri) = toLowerCase(uri) }
    IN  IF hits = {} THEN [contents |-> NotFoundContents(uri)]
        ELSE [contents |->
                FoundContents(context.resources[CHOOSE i \in hits : \A j \in hits : i <= j])]

getProjectResource(context, uri) ==
    LET hits == { i \in 1..Len(context.resources) : context.resources[i].uri = uri }
    IN  IF hits = {} THEN [contents |-> NotFoundContents(uri)]
        ELSE [contents |->
                FoundContents(context.resources[CHOOSE i \in hits : \A j \in hits : i <= j])]

\* What a call yields once the awaited context is there: it returns a
\* result or throws (its promise rejects).
Outcome(op, arg, context) ==
    CASE op = "loadProjectContext" ->
            [pc |-> "returned", result |-> context]
      [] op = "listProjectResources" ->
            IF ThrowsOnResources(context) THEN [pc |-> "threw", result |-> "TypeError"]
            ELSE [pc |-> "returned", result |-> listProjectResources(context, arg)]
      [] op = "getProjectResource" ->
            IF ThrowsOnResources(context) THEN [pc |-> "threw", result |-> "TypeError"]
            ELSE [pc |-> "returned", result |-> getProjectResource(context, arg.text)]
      [] op = "project_summary" ->
            IF context.type = "null" THEN [pc |-> "threw", result |-> "TypeError"]
            ELSE IF "summary" \in context.has
                THEN [pc |-> "returned", result |-> context.summary]
                ELSE [pc |-> "returned", result |-> "undefined"]
      [] op = "project_context_version" ->
            IF ThrowsOnResources(context) THEN [pc |-> "threw", result |-> "TypeError"]
            ELSE [pc |-> "returned",
                  result |-> [generatedAt |-> context.generatedAt,
                              resourceCount |-> Len(context.resources)]]

InitShim ==
    /\ served \in Servings
    /\ fetchPromise = NoPromise
    /\ thenPromise = NoPromise
    /\ projectContextPromise = NoPromise
    /\ fetchCount = 0
    /\ assignCount = 0
    /\ loadCalls = 0
    /\ calls = 0
    /\ callers = [c \in Callers |-> Idle]

\* A call of an operation that awaits loadProjectContext(): the body of
\* loadProjectContext runs at once (lines 23-31), then the caller waits.
CallLoading(c, op, arg) ==
    /\ callers[c].pc = "idle"
    /\ calls < MaxCalls
    /\ op \in LoadingOps
    /\ arg \in ArgsOf(op)
    /\ calls' = calls + 1
    /\ loadCalls' = loadCalls + 1
    /\ IF IsUnset(projectContextPromise)
       THEN /\ fetchPromise' = Pending
            /\ thenPromise' = Pending
            /\ projectContextPromise' = Pending
            /\ fetchCount' = fetchCount + 1
            /\ assignCount' = assignCount + 1
       ELSE UNCHANGED <<fetchPromise, thenPromise, projectContextPromise,
                        fetchCount, assignCount>>
    /\ callers' = [callers EXCEPT ![c] =
                      [pc |-> "awaiting", op |-> op, arg |-> arg,
                       when |-> projectContextPromise.state, result |-> "none"]]
    /\ UNCHANGED served
    /\ UNCHANGED <<genVars, gameVars>>

\* contextHelpers.assistant_instructions: returns its text, loads nothing.
CallAssistantInstructions(c) ==
    /\ callers[c].pc = "idle"
    /\ calls < MaxCalls
    /\ calls' = calls + 1
    /\ callers' = [callers EXCEPT ![c] =
                      [pc |-> "returned", op |-> "assistant_instructions", arg |-> NoArg,
                       when |-> projectContextPromise.state,
                       result |-> "Use project resources before answering"]]
    /\ UNCHANGED <<served, fetchPromise, thenPromise, projectContextPromise,
                   fetchCount, assignCount, loadCalls>>
    /\ UNCHANGED <<genVars, gameVars>>

\* The request ends: fetch's promise rejects on a network error and fulfils
\* with the response otherwise.
FetchSettles ==
    /\ fetchPromise.state = "pending"
    /\ fetchPromise' = IF served.kind = "networkError" THEN Rejected
                       ELSE Promise("fulfilled", JsonNull)
    /\ UNCHANGED <<served, thenPromise, projectContextPromise, fetchCount,
                   assignCount, loadCalls, calls, callers>>
    /\ UNCHANGED <<genVars, gameVars>>

\* The then callback, lines 25-28: throws unless response.ok, else returns
\* response.json(), which the then promise follows.  A rejection of fetch
\* passes through.
ThenCallback ==
    /\ thenPromise.state = "pending"
    /\ fetchPromise.state \in { "fulfilled", "rejected" }
    /\ thenPromise' = IF fetchPromise.state = "rejected" THEN Rejected
                      ELSE IF ~ResponseOk(served) THEN Rejected
                      ELSE Promise("parsing", JsonNull)
    /\ UNCHANGED <<served, fetchPromise, projectContextPromise, fetchCount,
                   assignCount, loadCalls, calls, callers>>
    /\ UNCHANGED <<genVars, gameVars>>

\* response.json() settles: the parsed value, or a rejection (SyntaxError).
JsonSettles ==
    /\ thenPromise.state = "parsing"
    /\ thenPromise' = IF served.parsable THEN Promise("fulfilled", served.value)
                      ELSE Rejected
    /\ UNCHANGED <<served, fetchPromise, projectContextPromise, fetchCount,
                   assignCount, loadCalls, calls, callers>>
    /\ UNCHANGED <<genVars, gameVars>>

\* The catch callback, line 29: a rejection becomes the fallback context, a
\* value passes through.
CatchCallback ==
    /\ projectContextPromise.state = "pending"
    /\ thenPromise.state \in { "fulfilled", "rejected" }
    /\ projectContextPromise' =
          IF thenPromise.state = "rejected"
          THEN Promise("fulfilled", getFallbackProjectContext)
          ELSE Promise("fulfilled", thenPromise.value)
    /\ UNCHANGED <<served, fetchPromise, thenPromise, fetchCount, assignCount,
                   loadCalls, calls, callers>>
    /\ UNCHANGED <<genVars, gameVars>>

\* A caller's await ends: the rest of its operation runs.
Resume(c) ==
    /\ callers[c].pc = "awaiting"
    /\ projectContextPromise.state \in { "fulfilled", "rejected" }
    /\ LET out == IF projectContextPromise.state = "rejected"
                  THEN [pc |-> "threw", result |-> "rejected"]
                  ELSE Outcome(callers[c].op, callers[c].arg, projectContextPromise.value)
       IN  callers' = [callers EXCEPT ![c].pc = out.pc, ![c].result = out.result]
    /\ UNCHANGED <<served, fetchPromise, thenPromise, projectContextPromise,
                   fetchCount, assignCount, loadCalls, calls>>
    /\ UNCHANGED <<genVars, gameVars>>

\* The caller takes the result and is free for another call.
Release(c) ==
    /\ callers[c].pc \in { "returned", "threw" }
    /\ callers' = [callers EXCEPT ![c] = Idle]
    /\ UNCHANGED <<served, fetchPromise, thenPromise, projectContextPromise,
                   fetchCount, assignCount, loadCalls, calls>>
    /\ UNCHANGED <<genVars, gameVars>>

ShimNext ==
    \/ \E c \in Callers, op \in LoadingOps : \E arg \in ArgsOf(op) : CallLoading(c, op, arg)
    \/ \E c \in Callers : CallAssistantInstructions(c)
    \/ FetchSettles
    \/ ThenCallback
    \/ JsonSettles
    \/ CatchCallback
    \/ \E c \in Callers : Resume(c)
    \/ \E c \in Callers : Release(c)

-----------------------------------------------------------------------------
(* The game: class Game of src/index.js.  A board is the array squares of  *)
(* nine values 'X', 'O' or null; square i of the code is squares[i + 1].    *)

Null == "null"

\* Largest number of marks handleClick is followed to.
MaxMoves == 5

\* calculateWinner of ./helpers/calculateWinner, which index.js imports: a
\* fixed set of line checks, the three rows, the three columns and the two
\* diagonals; the mark of the first line that holds one mark three times,
\* or null.
WinningLines ==
    << <<0, 1, 2>>, <<3, 4, 5>>, <<6, 7, 8>>,
       <<0, 3, 6>>, <<1, 4, 7>>, <<2, 5, 8>>,
       <<0, 4, 8>>, <<2, 4, 6>> >>

calculateWinner(squares) ==
    LET won == { n \in 1..Len(WinningLines) :
                    /\ squares[WinningLines[n][1] + 1] # Null
                    /\ squares[WinningLines[n][1] + 1] = squares[WinningLines[n][2] + 1]
                    /\ squares[WinningLines[n][1] + 1] = squares[WinningLines[n][3] + 1] }
    IN  IF won = {} THEN Null
        ELSE squares[WinningLines[CHOOSE n \in won : \A m \in won : n <= m][1] + 1]

\* this.state
State == [history |-> history, stepNumber |-> stepNumber, xIsNext |-> xIsNext]

\* this.state after handleClick(i), lines 192-209.  The variant takes the
\* whole of this.state.history where the code takes the slice.
handleClickOnWholeHistory(i) ==
    LET whole == history
        current == whole[stepNumber + 1]
        squares == current.squares
    IN  IF calculateWinner(squares) # Null \/ squares[i + 1] # Null THEN State
        ELSE [history |-> Append(whole,
                                 [squares |-> [squares EXCEPT ![i + 1] =
                                                  IF xIsNext THEN "X" ELSE "O"]]),
              stepNumber |-> Len(whole),
              xIsNext |-> ~xIsNext]

handleClick(i) ==
    LET sliced == SubSeq(history, 1, stepNumber + 1)
        current == sliced[Len(sliced)]
        squares == current.squares
    IN  IF calculateWinner(squares) # Null \/ squares[i + 1] # Null THEN State
        ELSE [history |-> Append(sliced,
                                 [squares |-> [squares EXCEPT ![i + 1] =
                                                  IF xIsNext THEN "X" ELSE "O"]]),
              stepNumber |-> Len(sliced),
              xIsNext |-> ~xIsNext]

\* this.state after jumpTo(step), lines 211-217.  The variant sets
\* stepNumber only.
jumpToKeepingTurn(step) == [State EXCEPT !.stepNumber = step]

jumpTo(step) == [State EXCEPT !.stepNumber = step, !.xIsNext = (step % 2 = 0)]

\* setState
SetState(state) ==
    /\ history' = state.history
    /\ stepNumber' = state.stepNumber
    /\ xIsNext' = state.xIsNext

\* The constructor, lines 179-190.
InitGame ==
    /\ history = << [squares |-> [k \in 1..9 |-> Null]] >>
    /\ stepNumber = 0
    /\ xIsNext = TRUE

\* A click on square i of the board shown.
HandleClick ==
    /\ stepNumber < MaxMoves
    /\ \E i \in 0..8 : SetState(handleClick(i))
    /\ UNCHANGED <<genVars, shimVars>>

\* A jump to a step of the history.
JumpTo ==
    /\ \E step \in 0..(Len(history) - 1) : SetState(jumpTo(step))
    /\ UNCHANGED <<genVars, shimVars>>

GameNext == HandleClick \/ JumpTo

-----------------------------------------------------------------------------
(* Specifications.  The generator runs at build time and the shim in the   *)
(* browser, as the game does; each is checked with the others at rest.     *)

GeneratorAtRest ==
    /\ pathSep = "/"
    /\ fsFiles = {}
    /\ pc = "start"
    /\ enumOrder = "none"
    /\ files = <<>>
    /\ idx = 1
    /\ resources = <<>>
    /\ totalChars = 0
    /\ stopped = FALSE
    /\ reads = 0
    /\ runs = 0
    /\ written = <<>>

ShimAtRest ==
    /\ served = Response(TRUE, TRUE, JsonNull)
    /\ fetchPromise = NoPromise
    /\ thenPromise = NoPromise
    /\ projectContextPromise = NoPromise
    /\ fetchCount = 0
    /\ assignCount = 0
    /\ loadCalls = 0
    /\ calls = 0
    /\ callers = [c \in Callers |-> Idle]

Init == InitGenerator /\ ShimAtRest /\ InitGame

Next ==
    \/ CollectAndSort
    \/ LoopStep
    \/ ReaddirFails
    \/ ReadFileFails
    \/ WriteOutput
    \/ RunAgain

\* The generator.
Spec == Init /\ [][Next]_vars

ShimInit == InitShim /\ GeneratorAtRest /\ InitGame

\* The shim.
ShimSpec == ShimInit /\ [][ShimNext]_vars

GameInit == InitGame /\ GeneratorAtRest /\ ShimAtRest

\* The game.
GameSpec == GameInit /\ [][GameNext]_vars

-----------------------------------------------------------------------------
(* Properties of the generator *)

\* The resources of the snapshot written last.
Snapshot == written[Len(written)].resources

PathsOf(rs) == { rs[i].path : i \in 1..Len(rs) }

\* The rules of section 4.1 for a file of the tree: outside ignored
\* directories, allow-listed extension, file name not deny-listed, not
\* under public/ except public/index.html, no NUL character.
ProjectPath(f) == Join(Append(f.dir, f.name), "/")

MeetsRules(f) ==
    /\ \A i \in 1..Len(f.dir) : f.dir[i] \notin IGNORED_DIRS
    /\ toLowerCase(extname(f.name)) \in INCLUDED_EXTENSIONS
    /\ f.name \notin EXCLUDED_FILES
    /\ (f.dir # <<>> /\ f.dir[1] = <<"p", "u", "b", "l", "i", "c">>) => ProjectPath(f) = <<"p", "u", "b", "l", "i", "c", "/", "i", "n", "d", "e", "x", ".", "h", "t", "m", "l">>

EligiblePaths(fs) == { ProjectPath(f) : f \in { g \in fs : MeetsRules(g) /\ ~g.content.nul } }

\* C1: every resource's text has length <= MAX_CHARS_PER_FILE, truncated
\* or not, at every point of every run.
C1_TextWithinPerFileCap ==
    \A i \in 1..Len(resources) : TextLength(resources[i].text) <= MAX_CHARS_PER_FILE

\* C2: the running counter totalChars, which is the sum of the text lengths
\* of the resources, never exceeds MAX_TOTAL_CHARS.
C2_TotalWithinTotalCap ==
    /\ totalChars = TotalTextLength(resources)
    /\ totalChars <= MAX_TOTAL_CHARS

\* C5 as claimed: after every run the set of resource paths is exactly the
\* set of the files that meet the rules and hold no NUL character.
C5_PathsAreExactlyEligible ==
    pc = "done" => PathsOf(Snapshot) = EligiblePaths(fsFiles)

\* C5 as amended: the resource paths are always among the files that meet
\* the rules and hold no NUL character, and they are exactly those files when
\* the loop ended without a break, that is when neither MAX_FILES nor
\* MAX_TOTAL_CHARS stopped it.
C5_PathsEligibleUnlessBudget ==
    pc = "done" =>
        /\ PathsOf(Snapshot) \subseteq EligiblePaths(fsFiles)
        /\ ~stopped => PathsOf(Snapshot) = EligiblePaths(fsFiles)

\* C5 witness: a run that ended without a break on a tree that holds a file
\* with a NUL character, a file the rules exclude, and a resource.
C5_Witness ==
    /\ pc = "done"
    /\ ~stopped
    /\ Len(Snapshot) >= 1
    /\ \E f \in fsFiles : MeetsRules(f) /\ f.content.nul
    /\ \E f \in fsFiles : ~MeetsRules(f) /\ ~IsOutputFile(f)

\* C6: the resources are in strictly ascending order of path (so no two
\* share a path), each uri is file:/// followed by the path, whatever the
\* order of the directory enumeration.
C6_StrictlyAscendingPaths ==
    pc = "done" =>
        /\ \A i, j \in 1..Len(Snapshot) :
              i < j => CodeUnitLess(Snapshot[i].path, Snapshot[j].path)
        /\ \A i \in 1..Len(Snapshot) :
              Snapshot[i].uri = <<"f", "i", "l", "e", ":", "/", "/", "/">> \o Snapshot[i].path

\* C7: two runs in a row on a tree that is otherwise unchanged write the same
\* resources, whatever the enumeration order of each run, and the output
\* file is never a resource.
C7_Idempotent ==
    /\ \A k \in 1..Len(written) :
          Join(Append(OUTPUT_DIR, OUTPUT_NAME), "/") \notin PathsOf(written[k].resources)
    /\ Len(written) = 2 => written[1].resources = written[2].resources

\* The candidates of the sorted list that hold no NUL character, in the
\* order of the list.
HoldsNoNul(file) == ~readFileSync(fsFiles, file.fullPath).nul

NonBinaryCandidates == SelectSeq(files, HoldsNoNul)

BudgetReached == totalChars >= MAX_TOTAL_CHARS \/ Len(resources) >= MAX_FILES

C11_PrefixOfCandidates ==
    pc \in {"loop", "done"} =>
        LET candidates == NonBinaryCandidates
            n == Len(resources)
        IN  /\ reads = idx - 1
            /\ n <= Len(candidates)
            /\ \A i \in 1..n :
                  /\ resources[i].path = candidates[i].relativePath
                  /\ (resources[i].truncated /\ resources[i].text.chars < MAX_CHARS_PER_FILE)
                         => i = n
            /\ pc = "done" => Snapshot = resources

C11_NothingAfterTheBudget ==
    (pc = "loop" /\ BudgetReached) => (reads' = reads /\ resources' = resources)

\* C11: the candidates are read in the order of the sorted list, each once;
\* the resources are the first ones of the candidates of that list that hold
\* no NUL character, in its order; a resource cut to less than
\* MAX_CHARS_PER_FILE characters, which is a cut to the remaining budget, is
\* the last one; and once totalChars has reached MAX_TOTAL_CHARS or the
\* resources number MAX_FILES, no step of the run reads a file or adds a
\* resource.
C11_SortedPrefix == []C11_PrefixOfCandidates /\ [][C11_NothingAfterTheBudget]_vars

\* A run that stopped on the character budget with candidates left, a file
\* holding a NUL character passed over before, and a last resource cut to
\* the remaining budget.
C11_Witness ==
    /\ pc = "loop"
    /\ stopped
    /\ idx <= Len(files)
    /\ totalChars >= MAX_TOTAL_CHARS
    /\ Len(resources) < idx - 1
    /\ resources[Len(resources)].truncated
    /\ resources[Len(resources)].text.chars < MAX_CHARS_PER_FILE

\* C12: the resource added last, which every resource is in the state that
\* follows its pass, has truncated true exactly if the content of its file
\* is longer than the smaller of MAX_CHARS_PER_FILE and the budget that was
\* left, MAX_TOTAL_CHARS less the text lengths of the resources before it;
\* its text is the whole content if truncated is false, and that many
\* characters of the content followed by the marker if it is true.
C12_TruncationRule ==
    (pc \in {"loop", "done"} /\ resources # <<>>) =>
        LET n == Len(resources)
            r == resources[n]
            original == (CHOOSE f \in fsFiles : ProjectPath(f) = r.path).content
            remaining == MAX_TOTAL_CHARS - SumTextLengths(resources, 1, n - 1)
            limit == IF MAX_CHARS_PER_FILE < remaining THEN MAX_CHARS_PER_FILE ELSE remaining
        IN  /\ r.truncated <=> original.len > limit
            /\ r.text.content = original.id
            /\ ~r.truncated => (r.text.chars = original.len /\ ~r.text.marker)
            /\ r.truncated => (r.text.chars = limit /\ r.text.marker)

\* Files of exactly MAX_CHARS_PER_FILE characters kept whole, then one of
\* them cut to the budget that was left, which is smaller.
C12_Witness ==
    /\ pc = "loop"
    /\ Len(resources) >= 3
    /\ ~resources[Len(resources) - 1].truncated
    /\ resources[Len(resources) - 1].text.chars = MAX_CHARS_PER_FILE
    /\ resources[Len(resources)].truncated
    /\ resources[Len(resources)].text.chars
           = MAX_TOTAL_CHARS - SumTextLengths(resources, 1, Len(resources) - 1)
    /\ resources[Len(resources)].text.chars < MAX_CHARS_PER_FILE

\* The candidates of a tree that hold a NUL character.
NulCandidates(fs) == { f \in fs : MeetsRules(f) /\ f.content.nul }

\* C13: no resource is a file that holds a NUL character, and the snapshot
\* a run wrote is the one loadResources gives for the tree without its
\* candidates that hold a NUL character, enumerated in the same order.
C13_NulFilesLeaveNoTrace ==
    /\ \A i \in 1..Len(resources) :
          \A f \in fsFiles : ProjectPath(f) = resources[i].path => ~f.content.nul
    /\ (pc = "done" /\ NulCandidates(fsFiles) # {}) =>
          Snapshot = loadResources(fsFiles \ NulCandidates(fsFiles), enumOrder, pathSep)

\* A run over a tree with a candidate that holds a NUL character, stopped
\* by the count of resources with every place of the count taken.
C13_Witness ==
    /\ pc = "done"
    /\ stopped
    /\ NulCandidates(fsFiles) # {}
    /\ Len(Snapshot) = MAX_FILES

\* C14: the resources never number more than MAX_FILES, during a run and
\* in every snapshot written.
C14_AtMostMaxFiles ==
    /\ Len(resources) <= MAX_FILES
    /\ \A k \in 1..Len(written) : Len(written[k].resources) <= MAX_FILES

\* A snapshot of MAX_FILES empty files, which used nothing of the character
\* budget, from a tree with more candidates than that.
C14_Witness ==
    /\ pc = "done"
    /\ Len(files) > MAX_FILES
    /\ Len(Snapshot) = MAX_FILES
    /\ totalChars = 0
    /\ \A i \in 1..Len(Snapshot) : Snapshot[i].text.chars = 0 /\ ~Snapshot[i].truncated

C15_FailedRunWritesNothing ==
    /\ (pc = "aborted" \/ pc' = "aborted") =>
           (fsFiles' = fsFiles /\ written' = written /\ runs' = runs)
    /\ (pc \in {"start", "loop"} /\ pc' # "done") => fsFiles' = fsFiles

\* C15: the step in which readdirSync or readFileSync throws ends the run
\* and changes no file, no step before it in the run changed one, and none
\* follows it but the start of another run: the tree, and so the output
\* file, is as it was when the run started, and no snapshot is recorded.
C15_AbortKeepsOutput == [][C15_FailedRunWritesNothing]_vars

\* A run ended by a failed read after an earlier run had written the
\* output file, which is still that run's.
C15_Witness ==
    /\ pc = "aborted"
    /\ runs = 1
    /\ written[1].resources # <<>>
    /\ ArtifactFile(written[1]) \in fsFiles

\* The tree of the example: src/App.js, README.md, node_modules/x/index.js.
ExampleTree ==
    { File(<< <<"s", "r", "c">> >>, <<"A", "p", "p", ".", "j", "s">>, 2, 500, FALSE),
      File(<<>>, <<"R", "E", "A", "D", "M", "E", ".", "m", "d">>, 1, 50, FALSE),
      File(<< <<"n", "o", "d", "e", "_", "m", "o", "d", "u", "l", "e", "s">>, <<"x">> >>,
           <<"i", "n", "d", "e", "x", ".", "j", "s">>, 3, 100, FALSE) }

UnderIgnoredDir(dir) == \E k \in 1..Len(dir) : dir[k] \in IGNORED_DIRS

\* C16: no file that has a directory of the ignored names anywhere above it
\* is in the list the walk collects, which holds every file the loop reads,
\* or is a resource; the tree of the example gives README.md and src/App.js,
\* in that order.
C16_IgnoredDirsNeverEntered ==
    /\ \A i \in 1..Len(files) : ~UnderIgnoredDir(files[i].fullPath[1])
    /\ \A f \in { g \in fsFiles : UnderIgnoredDir(g.dir) } :
          ProjectPath(f) \notin PathsOf(resources)
    /\ (pc = "done" /\ { f \in fsFiles : ~IsOutputFile(f) } = ExampleTree) =>
          /\ Len(Snapshot) = 2
          /\ Snapshot[1].path = <<"R", "E", "A", "D", "M", "E", ".", "m", "d">>
          /\ Snapshot[2].path = <<"s", "r", "c", "/", "A", "p", "p", ".", "j", "s">>

\* The snapshot of the tree of the example.
C16_Witness ==
    /\ pc = "done"
    /\ { f \in fsFiles : ~IsOutputFile(f) } = ExampleTree
    /\ Len(Snapshot) = 2

-----------------------------------------------------------------------------
(* Properties of the shim *)

\* C3: the artifact is fetched once if an operation that loads the context
\* was ever called and never otherwise, whatever the number and interleaving
\* of the calls, and projectContextPromise is assigned with that one fetch
\* only.
C3_SingleFetch ==
    /\ fetchCount = (IF loadCalls > 0 THEN 1 ELSE 0)
    /\ assignCount = fetchCount
    /\ (projectContextPromise.state = "undefined") = (loadCalls = 0)

\* C3 witness: three calls were made, one of a caller that found the fetch
\* in flight and one of a caller that found it completed.
C3_Witness ==
    /\ loadCalls = 3
    /\ \E c, d \in Callers :
        /\ callers[c].op \in LoadingOps /\ callers[c].when = "pending"
        /\ callers[d].op \in LoadingOps /\ callers[d].when = "fulfilled"

\* The fetch fails: a network error, a non-success status or a body that
\* does not parse.
FetchFails == served.kind = "networkError" \/ ~served.ok \/ ~served.parsable

\* C4: the promise of loadProjectContext never rejects; it fulfils with the
\* fallback context when the fetch fails and with the parsed artifact
\* otherwise, and that is what a caller of loadProjectContext receives.
C4_NeverRejects ==
    /\ projectContextPromise.state # "rejected"
    /\ projectContextPromise.state = "fulfilled" =>
          projectContextPromise.value =
              (IF FetchFails THEN getFallbackProjectContext ELSE served.value)
    /\ \A c \in Callers :
          callers[c].op = "loadProjectContext" =>
              /\ callers[c].pc # "threw"
              /\ callers[c].pc = "returned" =>
                    callers[c].result = projectContextPromise.value

\* C4 witness: a caller of loadProjectContext received the fallback after a
\* non-success status whose body would have parsed.
C4_Witness ==
    /\ served.kind = "response" /\ ~served.ok /\ served.parsable
    /\ \E c \in Callers :
          callers[c].op = "loadProjectContext" /\ callers[c].pc = "returned"

UrisOf(s) == [i \in 1..Len(s) |-> s[i].uri]

ContainsIgnoringCase(s, q) == includes(toLowerCase(s), toLowerCase(q))

\* The resources a search for the text q selects: all of them when q is
\* empty, else those whose uri, path or name contains q, case ignored.
Selected(rs, q) ==
    SelectSeq(rs, LAMBDA r :
        \/ q = <<>>
        \/ ContainsIgnoringCase(r.uri, q)
        \/ ContainsIgnoringCase(r.path, q)
        \/ ContainsIgnoringCase(r.name, q))

ListReturned(c) == callers[c].op = "listProjectResources" /\ callers[c].pc = "returned"

SearchText(c) == IF callers[c].arg.given THEN callers[c].arg.text ELSE <<>>

\* C8 as claimed: a listing holds, in snapshot order, an entry for every
\* resource when search is empty or absent, and otherwise for exactly the
\* resources whose uri, path or name contains the search text, case ignored.
C8_ListMatchesSearchText ==
    \A c \in Callers :
        ListReturned(c) =>
            UrisOf(callers[c].result) =
                UrisOf(Selected(projectContextPromise.value.resources, SearchText(c)))

\* C8 as amended: the same with the search text first stripped of its
\* leading and trailing white space (a search of white space only counts as
\* empty).
C8_ListMatchesTrimmedSearchText ==
    \A c \in Callers :
        ListReturned(c) =>
            UrisOf(callers[c].result) =
                UrisOf(Selected(projectContextPromise.value.resources,
                                trim(SearchText(c))))

\* C8 witness: a search in capitals returned some resources and not all.
C8_Witness ==
    \E c \in Callers :
        /\ ListReturned(c)
        /\ callers[c].arg.text = <<"S", "R", "C">>
        /\ Len(callers[c].result) > 0
        /\ Len(callers[c].result) < Len(projectContextPromise.value.resources)

GetReturned(c) == callers[c].op = "getProjectResource" /\ callers[c].pc = "returned"

\* C9: getProjectResource returns one content item: of a resource that has
\* exactly the requested uri, its uri and its stored text; when there is
\* none, the requested uri and a text that contains the requested uri.
C9_GetResource ==
    \A c \in Callers :
        GetReturned(c) =>
            LET rs == projectContextPromise.value.resources
                uri == callers[c].arg.text
                contents == callers[c].result.contents
            IN  /\ Len(contents) = 1
                /\ IF \E i \in 1..Len(rs) : rs[i].uri = uri
                   THEN \E i \in 1..Len(rs) :
                            /\ rs[i].uri = uri
                            /\ contents[1].uri = uri
                            /\ contents[1].text = rs[i].text
                   ELSE /\ contents[1].uri = uri
                        /\ includes(contents[1].text, uri)

\* C9 witness: the text of a resource was returned for its uri, and in the
\* same session a request for a uri that differs from it by case only was
\* answered.
C9_Witness ==
    \E c, d \in Callers :
        /\ GetReturned(c)
        /\ callers[c].arg.text = <<"f", "i", "l", "e", ":", "/", "/", "/", "R", "E", "A", "D", "M", "E", ".", "m", "d">>
        /\ callers[c].result.contents[1].uri = <<"f", "i", "l", "e", ":", "/", "/", "/", "R", "E", "A", "D", "M", "E", ".", "m", "d">>
        /\ GetReturned(d)
        /\ callers[d].arg.text = <<"f", "i", "l", "e", ":", "/", "/", "/", "r", "e", "a", "d", "m", "e", ".", "m", "d">>

\* C10: no operation of the shim throws or rejects, whatever the argument
\* and the outcome of the fetch.
C10_NeverThrows ==
    \A c \in Callers : callers[c].pc # "threw"


\* C17: every entry of a listing has the fields uri, name, description and
\* mimeType and no other, text and truncated not among them; it is the
\* entry of a resource of the context, whose uri, name and mimeType it
\* carries, with "Project file " and the path of that resource as its
\* description.
C17_ListEntryFields ==
    \A c \in Callers :
        ListReturned(c) =>
            \A k \in 1..Len(callers[c].result) :
                LET entry == callers[c].result[k]
                    rs == projectContextPromise.value.resources
                IN  /\ DOMAIN entry = {"uri", "name", "description", "mimeType"}
                    /\ \E j \in 1..Len(rs) :
                          /\ entry.uri = rs[j].uri
                          /\ entry.name = rs[j].name
                          /\ entry.mimeType = rs[j].mimeType
                          /\ entry.description =
                                 <<"P", "r", "o", "j", "e", "c", "t", " ", "f", "i", "l", "e", " ">>
                                     \o rs[j].path

\* A listing with the entry of a resource whose text was truncated.
C17_Witness ==
    \E c \in Callers :
        /\ ListReturned(c)
        /\ \E k \in 1..Len(callers[c].result) :
              \E j \in 1..Len(projectContextPromise.value.resources) :
                  /\ projectContextPromise.value.resources[j].uri = callers[c].result[k].uri
                  /\ projectContextPromise.value.resources[j].truncated
                  /\ projectContextPromise.value.resources[j].text.marker

-----------------------------------------------------------------------------
(* Properties of the game *)

Marks(squares) == { q \in 1..9 : squares[q] # Null }

\* C18: stepNumber is an index of history, xIsNext is true exactly if
\* stepNumber is even, the first board is empty, and every later board
\* history[k] has the marks of the board before it and one more, in a square
\* that was empty: an X if k is odd and an O if k is even, k marks in all.
C18_GameStateInvariant ==
    /\ stepNumber \in 0..(Len(history) - 1)
    /\ xIsNext <=> stepNumber % 2 = 0
    /\ Marks(history[1].squares) = {}
    /\ \A k \in 1..(Len(history) - 1) :
          LET before == history[k].squares
              after == history[k + 1].squares
          IN  /\ \E q \in 1..9 :
                    /\ before[q] = Null
                    /\ after[q] = (IF k % 2 = 1 THEN "X" ELSE "O")
                    /\ \A o \in (1..9) \ {q} : after[o] = before[o]
              /\ Cardinality(Marks(after)) = k

\* The board shown is not the last one, after a jump back to an odd step.
C18_Witness ==
    /\ Len(history) = MaxMoves + 1
    /\ stepNumber = 3
    /\ ~xIsNext

\* Three equal marks in a row, a column or a diagonal.
ThreeInLine(squares) ==
    \E m \in {"X", "O"} :
        \/ \E r \in 0..2 : \A c \in 0..2 : squares[3 * r + c + 1] = m
        \/ \E c \in 0..2 : \A r \in 0..2 : squares[3 * r + c + 1] = m
        \/ \A d \in 0..2 : squares[4 * d + 1] = m
        \/ \A d \in 0..2 : squares[2 * d + 3] = m

\* C19: in every state of the game and for every square i, handleClick(i)
\* changes nothing of the state if the board shown has three in line or its
\* square i is taken; otherwise the history it sets is the boards up to the
\* one shown, unchanged, and one more board, and stepNumber is the index of
\* that board.  jumpTo(step) leaves history as it is for every step of the
\* history.
C19_HandlerEffects ==
    /\ \A i \in 0..8 :
          LET shown == history[stepNumber + 1].squares
              next == handleClick(i)
          IN  IF ThreeInLine(shown) \/ shown[i + 1] # Null
              THEN /\ next.history = history
                   /\ next.stepNumber = stepNumber
                   /\ next.xIsNext = xIsNext
              ELSE /\ Len(next.history) = stepNumber + 2
                   /\ \A k \in 1..(stepNumber + 1) : next.history[k] = history[k]
                   /\ next.stepNumber = Len(next.history) - 1
    /\ \A step \in 0..(Len(history) - 1) : jumpTo(step).history = history

\* A won board with empty squares is shown, and a click on one of them
\* leaves the state as it is.
C19_Witness ==
    /\ ThreeInLine(history[stepNumber + 1].squares)
    /\ \E i \in 0..8 :
          /\ history[stepNumber + 1].squares[i + 1] = Null
          /\ handleClick(i) = State

====
